---- MODULE Spec2Model ----
(***************************************************************************)
(* User and role management of slugline (src/user/models.py): the          *)
(* SluglineUser model (is_editor, role, the roles cache, at_least) and     *)
(* the UserSerializer (validate, create, update), as a state machine over  *)
(* the user table, the user<->group relation and the per-instance roles    *)
(* cache.                                                                  *)
(*                                                                         *)
(* A Python str is modelled as a sequence of one-character strings, so     *)
(* that str.lower() and set(str) are computed and not assumed.             *)
(***************************************************************************)
EXTENDS Integers, Sequences, FiniteSets, TLC

VARIABLES
    objects,      \* SluglineUser.objects: username -> row of the user table
    user_groups,  \* user.groups: username -> set of group names (many-to-many)
    roles_cache,  \* SluglineUser.__roles_cache of the instance: <<>> is None, <<S>> a set S
    last          \* the request or read that ran last, its input and its outcome

vars == <<objects, user_groups, roles_cache, last>>

----------------------------------------------------------------------------
(* Strings of the program.                                                 *)

Contributor == <<"C","o","n","t","r","i","b","u","t","o","r">>
Copyeditor  == <<"C","o","p","y","e","d","i","t","o","r">>
Editor      == <<"E","d","i","t","o","r">>
Staff       == <<"S","t","a","f","f">>

\* GROUPS: role name -> the roles it implies
GROUPS ==
    (Contributor :> {}) @@
    (Copyeditor  :> {Contributor}) @@
    (Editor      :> {Copyeditor, Contributor})

FORBIDDEN_USERNAMES ==
    { <<"a","d","m","i","n">>,
      <<"a","d","m","i","n","i","s","t","r","a","t","o","r">>,
      <<"r","o","o","t">>,
      <<"t","o","o","r">>,
      <<"s","u","d","o">>,
      <<"s","u","d","o","e","r","s">> }

\* str.lower() on the letters the model's usernames use
UpperToLower ==
    ("A" :> "a") @@ ("D" :> "d") @@ ("E" :> "e") @@ ("I" :> "i") @@
    ("J" :> "j") @@ ("M" :> "m") @@ ("N" :> "n") @@ ("O" :> "o") @@
    ("R" :> "r") @@ ("T" :> "t")

LowerChar(c) == IF c \in DOMAIN UpperToLower THEN UpperToLower[c] ELSE c

lower(s) == [i \in DOMAIN s |-> LowerChar(s[i])]

\* set(value) for a str value: the set of its one-character strings
SetOfStr(s) == { <<s[i]>> : i \in DOMAIN s }

----------------------------------------------------------------------------
(* The inputs the model draws.                                             *)

\* the most rows the user table holds
MaxUsers == 1

jdoe == <<"j","d","o","e">>
JDoe == <<"J","D","o","e">>

Usernames ==
    { jdoe, JDoe,
      <<"a","d","m","i","n">>, <<"A","d","m","i","n">>, <<"R","O","O","T">> }

GoodEmail == "j@x.com"
BadEmail  == "not-an-email"

GoodPassword == "Str0ng!Pass99"
BadPassword  == "123"

\* role values a payload carries: the keys of GROUPS and one that is no key
RoleValues == DOMAIN GROUPS \cup {Staff}

NoData == <<>>

Field(k, S) == { k :> v : v \in S }

OptField(k, S) == Field(k, S) \cup {NoData}

\* the email and password of a create: both good, a bad email, both bad
CreateCredentials ==
    { ("email" :> GoodEmail) @@ ("password" :> GoodPassword),
      ("email" :> BadEmail)  @@ ("password" :> GoodPassword),
      ("email" :> BadEmail)  @@ ("password" :> BadPassword) }

\* the email and password of an update: neither, both good, a bad password
UpdateCredentials ==
    { NoData,
      ("email" :> GoodEmail) @@ ("password" :> GoodPassword),
      "password" :> BadPassword }

\* validated_data of a create: is_editor always present (BooleanField(default=False)),
\* role present or not
CreatePayloads ==
    { u @@ c @@ ie @@ r :
        u \in Field("username", Usernames),
        c \in CreateCredentials,
        ie \in Field("is_editor", BOOLEAN),
        r \in OptField("role", RoleValues) }

\* validated_data of a (partial) update: every key optional
UpdatePayloads ==
    { c @@ ie @@ r :
        c \in UpdateCredentials,
        ie \in OptField("is_editor", BOOLEAN),
        r \in OptField("role", RoleValues) }

\* dict.get(key, default)
Get(d, k, default) == IF k \in DOMAIN d THEN d[k] ELSE default

----------------------------------------------------------------------------
(* SluglineUser.                                                           *)

\* SluglineUser.is_editor (getter): membership in the group named "Editor"
is_editor(grps) == Editor \in grps

\* role with the Editor test ahead of the staff test
role_EditorFirst(staff, grps) ==
    IF Editor \in grps THEN Editor
    ELSE IF staff THEN Staff
    ELSE IF Copyeditor \in grps THEN Copyeditor
    ELSE Contributor

\* role with the Copyeditor test ahead of the Editor test
role_CopyeditorFirst(staff, grps) ==
    IF staff THEN Staff
    ELSE IF Copyeditor \in grps THEN Copyeditor
    ELSE IF Editor \in grps THEN Editor
    ELSE Contributor

\* SluglineUser.role (getter): the highest role a user has
role(staff, grps) ==
    IF staff THEN Staff
    ELSE IF Editor \in grps THEN Editor
    ELSE IF Copyeditor \in grps THEN Copyeditor
    ELSE Contributor

\* Python values handed to the role setter
PyNone     == [type |-> "NoneType"]
PyStr(s)   == [type |-> "str", v |-> s]
PySet(S)   == [type |-> "set", v |-> S]

\* bool(value)
Truthy(value) ==
    CASE value.type = "NoneType" -> FALSE
      [] value.type = "str"      -> value.v # <<>>
      [] value.type = "set"      -> value.v # {}

\* set(value)
PySetOf(value) ==
    CASE value.type = "str" -> SetOfStr(value.v)
      [] value.type = "set" -> value.v

\* SluglineUser.role (setter): the new __roles_cache
role_setter(value, grps) ==
    << IF Truthy(value) THEN PySetOf(value) ELSE grps >>

\* SluglineUser.get_all_roles: the __roles_cache after the call; the call returns its element
get_all_roles(cache, grps) ==
    IF cache = <<>> THEN role_setter(PyNone, grps) ELSE cache

\* SluglineUser.at_least
at_least(r, cache, grps) == r \in get_all_roles(cache, grps)[1]

----------------------------------------------------------------------------
(* Collaborators of the serializer (Django), by their contract.            *)

\* django.core.validators.validate_email: TRUE when the address passes
validate_email(e) == e = GoodEmail

\* django validate_password: the codes of the rules the password violates, in order
validate_password(p) ==
    IF p = BadPassword
    THEN << "password_too_short", "password_entirely_numeric" >>
    ELSE << >>

\* "USER." + e.code.replace("_", ".", 1).upper() + params, for the rules above
\* (password_too_short carries min_length = 8, password_entirely_numeric no params)
PasswordErrorCode ==
    ("password_too_short" :> "USER.PASSWORD.TOO_SHORT.8") @@
    ("password_entirely_numeric" :> "USER.PASSWORD.ENTIRELY_NUMERIC")

\* AbstractUser.set_password: a one-way hash of the raw password
make_password(p) == <<"hash", p>>

----------------------------------------------------------------------------
(* UserSerializer.                                                         *)

\* UserSerializer.validate: errors_list, field -> list of codes (empty: data passes)
validate(data) ==
    LET email_errors ==
            IF "email" \in DOMAIN data /\ ~validate_email(data["email"])
            THEN "email" :> << "USER.EMAIL.INVALID" >>
            ELSE NoData
        password_errors ==
            IF "password" \in DOMAIN data /\ validate_password(data["password"]) # << >>
            THEN "password" :>
                    [i \in DOMAIN validate_password(data["password"]) |->
                        PasswordErrorCode[validate_password(data["password"])[i]]]
            ELSE NoData
    IN  email_errors @@ password_errors

\* UsernameRejected without the lower() of the forbidden test
UsernameRejected_NoLower(validated_data) ==
    \/ validated_data["username"] \in DOMAIN objects
    \/ validated_data["username"] \in FORBIDDEN_USERNAMES

\* create: the condition under which it raises the username error
UsernameRejected(validated_data) ==
    \/ validated_data["username"] \in DOMAIN objects
    \/ lower(validated_data["username"]) \in FORBIDDEN_USERNAMES

UsernameError == "username" :> << "USER.USERNAME.ALREADY_EXISTS" >>

\* create_groups without the loop over the implied roles
create_groups_NoBaseRoles(validated_data) ==
    LET g1 == {Contributor}
        g2 == IF validated_data["is_editor"] THEN g1 \cup {Editor} ELSE g1
    IN  IF "role" \in DOMAIN validated_data /\ validated_data["role"] \in DOMAIN GROUPS
        THEN g2 \cup {validated_data["role"]}
        ELSE g2

\* create: the groups granted by the time create returns or raises at the role lookup
create_groups(validated_data) ==
    LET g1 == {Contributor}
        g2 == IF validated_data["is_editor"] THEN g1 \cup {Editor} ELSE g1
    IN  IF "role" \in DOMAIN validated_data /\ validated_data["role"] \in DOMAIN GROUPS
        THEN g2 \cup GROUPS[validated_data["role"]] \cup {validated_data["role"]}
        ELSE g2

\* create: validated_data["role"] raises KeyError when the key is missing
create_raises(validated_data) == "role" \notin DOMAIN validated_data

\* SluglineUser.objects.create(**validated_data), set_password, save: the row
create_row(validated_data) ==
    [ is_staff    |-> FALSE,
      email       |-> validated_data["email"],
      password    |-> make_password(validated_data["password"]) ]

\* SluglineUser(**validated_data): the role keyword goes through the role setter
create_cache(validated_data) ==
    IF "role" \in DOMAIN validated_data
    THEN role_setter(PyStr(validated_data["role"]), {})
    ELSE << >>

\* update_is_editor with the elif reading the key with default False
update_is_editor_WrongDefault(grps, validated_data) ==
    IF Get(validated_data, "is_editor", FALSE) THEN grps \cup {Editor}
    ELSE IF ~Get(validated_data, "is_editor", FALSE) THEN grps \ {Editor}
    ELSE grps

\* update: the is_editor step
update_is_editor(grps, validated_data) ==
    IF Get(validated_data, "is_editor", FALSE) THEN grps \cup {Editor}
    ELSE IF ~Get(validated_data, "is_editor", TRUE) THEN grps \ {Editor}
    ELSE grps

\* update: does the payload carry a role that is a key of GROUPS
role_in_GROUPS(validated_data) ==
    "role" \in DOMAIN validated_data /\ validated_data["role"] \in DOMAIN GROUPS

\* update: new_roles
new_roles(validated_data) ==
    {validated_data["role"]} \cup GROUPS[validated_data["role"]]

\* reconcile without the removal of the obsolete roles
reconcile_NoRemove(current_roles, validated_data) ==
    current_roles \cup (new_roles(validated_data) \ current_roles)

\* update: the reconciliation of the groups against new_roles
reconcile(current_roles, validated_data) ==
    LET obsolete == current_roles \ new_roles(validated_data)
        missing  == new_roles(validated_data) \ current_roles
    IN  (current_roles \ obsolete) \cup missing

\* update_groups with current_roles read before the is_editor step
update_groups_StaleCurrent(grps, validated_data) ==
    LET g1 == update_is_editor(grps, validated_data)
    IN  IF role_in_GROUPS(validated_data)
        THEN (g1 \ (grps \ new_roles(validated_data)))
                 \cup (new_roles(validated_data) \ grps)
        ELSE g1

\* update: the groups when update returns
update_groups(grps, validated_data) ==
    LET g1 == update_is_editor(grps, validated_data)
    IN  IF role_in_GROUPS(validated_data) THEN reconcile(g1, validated_data) ELSE g1

\* update: the row saved
update_row(row, validated_data) ==
    [ is_staff    |-> row.is_staff,
      email       |-> Get(validated_data, "email", row.email),
      password    |-> IF "password" \in DOMAIN validated_data
                      THEN make_password(validated_data["password"])
                      ELSE row.password ]

\* update: instance.role = new_roles
update_cache(cache, grps, validated_data) ==
    IF role_in_GROUPS(validated_data)
    THEN role_setter(PySet(new_roles(validated_data)), grps)
    ELSE cache

\* update: the memberships that an add or a remove of the call changed
update_touched(grps, validated_data) ==
    LET g1 == update_is_editor(grps, validated_data)
        g2 == update_groups(grps, validated_data)
    IN  (grps \ g1) \cup (g1 \ grps) \cup (g1 \ g2) \cup (g2 \ g1)

----------------------------------------------------------------------------
(* The state machine.                                                      *)

\* the record of a request: validated_data is kept when create inserted or update ran
\* again: the request before it was the same role update of the same user
Request(op, user, data, outcome, raised_by, errors, touched, again) ==
    [ op |-> op, user |-> user, data |-> data,
      outcome |-> outcome, raised_by |-> raised_by, errors |-> errors,
      touched |-> touched, again |-> again, arg |-> << >>, result |-> << >> ]

\* the record of a read of a property or a call of a method of the user
Read(op, user, arg, result) ==
    [ op |-> op, user |-> user, data |-> NoData,
      outcome |-> "returned", raised_by |-> "none", errors |-> NoData,
      touched |-> {}, again |-> FALSE, arg |-> arg, result |-> result ]

NoRequest == Read("none", << >>, << >>, << >>)

Init ==
    /\ objects = NoData
    /\ user_groups = NoData
    /\ roles_cache = NoData
    /\ last = NoRequest

\* a create request refused by validate
CreateInvalid(data) ==
    /\ validate(data) # NoData
    /\ last' = Request("create", data["username"], NoData, "ValidationError",
                       "validate", validate(data), {}, FALSE)
    /\ UNCHANGED <<objects, user_groups, roles_cache>>

\* a create request whose username create refuses
CreateRejected(data) ==
    /\ validate(data) = NoData
    /\ UsernameRejected(data)
    /\ last' = Request("create", data["username"], NoData, "ValidationError",
                       "create", UsernameError, {}, FALSE)
    /\ UNCHANGED <<objects, user_groups, roles_cache>>

\* a create request that inserts the user; create returns it or raises at the role lookup
CreateInserted(data, cap) ==
    LET u == data["username"] IN
    /\ validate(data) = NoData
    /\ ~UsernameRejected(data)
    /\ Cardinality(DOMAIN objects) < cap
    /\ objects' = (u :> create_row(data)) @@ objects
    /\ user_groups' = (u :> create_groups(data)) @@ user_groups
    /\ roles_cache' = (u :> create_cache(data)) @@ roles_cache
    /\ last' = Request("create", u, data,
                       IF create_raises(data) THEN "KeyError" ELSE "returned",
                       IF create_raises(data) THEN "create" ELSE "none",
                       NoData, create_groups(data), FALSE)

Create(cap) ==
    \E data \in CreatePayloads :
        \/ CreateInvalid(data)
        \/ CreateRejected(data)
        \/ CreateInserted(data, cap)

\* an update request refused by validate
UpdateInvalid(u, data) ==
    /\ validate(data) # NoData
    /\ last' = Request("update", u, NoData, "ValidationError", "validate", validate(data), {}, FALSE)
    /\ UNCHANGED <<objects, user_groups, roles_cache>>

\* the request before was an update that ran on user u with the role of data
SameRoleUpdate(u, data) ==
    /\ last.op = "update" /\ last.outcome = "returned" /\ last.user = u
    /\ role_in_GROUPS(data) /\ role_in_GROUPS(last.data)
    /\ last.data["role"] = data["role"]

\* an update request that runs update
UpdateApplied(u, data) ==
    /\ validate(data) = NoData
    /\ objects' = [objects EXCEPT ![u] = update_row(@, data)]
    /\ user_groups' = [user_groups EXCEPT ![u] = update_groups(@, data)]
    /\ roles_cache' = [roles_cache EXCEPT
                          ![u] = update_cache(@, update_groups(user_groups[u], data), data)]
    /\ last' = Request("update", u, data, "returned", "none", NoData,
                       update_touched(user_groups[u], data), SameRoleUpdate(u, data))

Update ==
    \E u \in DOMAIN objects, data \in UpdatePayloads :
        \/ UpdateInvalid(u, data)
        \/ UpdateApplied(u, data)

ReadRole ==
    \E u \in DOMAIN objects :
        /\ last' = Read("role", u, << >>, role(objects[u].is_staff, user_groups[u]))
        /\ UNCHANGED <<objects, user_groups, roles_cache>>

ReadIsEditor ==
    \E u \in DOMAIN objects :
        /\ last' = Read("is_editor", u, << >>, is_editor(user_groups[u]))
        /\ UNCHANGED <<objects, user_groups, roles_cache>>

GetAllRoles ==
    \E u \in DOMAIN objects :
        /\ roles_cache' = [roles_cache EXCEPT ![u] = get_all_roles(@, user_groups[u])]
        /\ last' = Read("get_all_roles", u, << >>, roles_cache'[u][1])
        /\ UNCHANGED <<objects, user_groups>>

AtLeast ==
    \E u \in DOMAIN objects, r \in RoleValues :
        /\ roles_cache' = [roles_cache EXCEPT ![u] = get_all_roles(@, user_groups[u])]
        /\ last' = Read("at_least", u, r, at_least(r, roles_cache[u], user_groups[u]))
        /\ UNCHANGED <<objects, user_groups>>

Next ==
    \/ Create(MaxUsers)
    \/ Update
    \/ ReadRole
    \/ ReadIsEditor
    \/ GetAllRoles
    \/ AtLeast

Spec == Init /\ [][Next]_vars

\* the same machine with room for one more row, for the claims about a second user
NextWide ==
    \/ Create(MaxUsers + 1)
    \/ Update
    \/ ReadRole
    \/ ReadIsEditor
    \/ GetAllRoles
    \/ AtLeast

SpecWide == Init /\ [][NextWide]_vars

\* the read path alone, on one user whose flag, groups and cache are drawn freely
\* (is_staff and the groups are also set outside the serializer)
InitRead ==
    /\ \E staff \in BOOLEAN :
          objects = jdoe :> [ is_staff |-> staff, email |-> GoodEmail,
                              password |-> make_password(GoodPassword) ]
    /\ user_groups \in [ {jdoe} -> SUBSET (DOMAIN GROUPS) ]
    /\ roles_cache = jdoe :> << >>
    /\ last = NoRequest

NextRead ==
    \/ ReadRole
    \/ ReadIsEditor
    \/ GetAllRoles
    \/ AtLeast

SpecRead == InitRead /\ [][NextRead]_vars

----------------------------------------------------------------------------
(* The claims.                                                             *)

Roles == {Contributor, Copyeditor, Editor}

\* the hierarchy table as the specification states it
Hierarchy(r) ==
    CASE r = Contributor -> {}
      [] r = Copyeditor  -> {Contributor}
      [] r = Editor      -> {Copyeditor, Contributor}

\* the step is a create that returned the user / an update that ran
CreateReturned == last'.op = "create" /\ last'.outcome = "returned"
UpdateRan      == last'.op = "update" /\ last'.outcome = "returned"

\* the groups of user u before the step, none when u has no row
GroupsOf(u) == IF u \in DOMAIN user_groups THEN user_groups[u] ELSE {}

\* C1: a create that is accepted with role r in {Contributor, Copyeditor, Editor}
\* and flag is_editor = b leaves the new user with exactly the groups
\* {r} + hierarchy[r] + {Contributor} + ({Editor} if b), and removes no group of
\* any user.
C1_CreateGrants ==
    [][ (CreateReturned /\ last'.data["role"] \in Roles) =>
          /\ last'.user \notin DOMAIN objects
          /\ user_groups'[last'.user] =
                {last'.data["role"]} \cup Hierarchy(last'.data["role"]) \cup {Contributor}
                \cup (IF last'.data["is_editor"] THEN {Editor} ELSE {})
          /\ \A u \in DOMAIN user_groups : user_groups[u] \subseteq user_groups'[u]
      ]_vars

\* a second user was created as Copyeditor with is_editor set, beside an existing one
C1_Witness ==
    /\ last.op = "create" /\ last.outcome = "returned"
    /\ last.data["role"] = Copyeditor /\ last.data["is_editor"]
    /\ Cardinality(DOMAIN objects) = 2
    /\ user_groups[last.user] = {Contributor, Copyeditor, Editor}

\* C2: an update whose payload carries a role r of the hierarchy table leaves the
\* user with exactly the groups {r} + hierarchy[r], whatever the groups before
\* and whatever is_editor (true, false, absent) the payload carries.
C2_UpdateSetsRoleChain ==
    [][ (UpdateRan /\ "role" \in DOMAIN last'.data /\ last'.data["role"] \in Roles) =>
          user_groups'[last'.user] =
              {last'.data["role"]} \cup Hierarchy(last'.data["role"])
      ]_vars

\* an update with role Contributor and is_editor true shrank an Editor to {Contributor}
C2_Witness ==
    /\ last.op = "update" /\ last.outcome = "returned"
    /\ "role" \in DOMAIN last.data /\ last.data["role"] = Contributor
    /\ "is_editor" \in DOMAIN last.data /\ last.data["is_editor"]
    /\ {Copyeditor, Editor} \subseteq last.touched
    /\ user_groups[last.user] = {Contributor}

\* the usernames of the model whose lowercased form is forbidden
ForbiddenInAnyCase ==
    { <<"a","d","m","i","n">>, <<"A","d","m","i","n">>, <<"R","O","O","T">> }

C4_HierarchyClosed ==
    \A u \in DOMAIN user_groups :
        /\ Editor \in user_groups[u] => {Copyeditor, Contributor} \subseteq user_groups[u]
        /\ Copyeditor \in user_groups[u] => Contributor \in user_groups[u]

\* C5: every create or update request either is applied in full and returns, or
\* returns a field-keyed error and leaves the rows and the group memberships as
\* they were.
C5_AllOrNothing ==
    [][ last'.op \in {"create", "update"} =>
          \/ last'.outcome = "returned"
          \/ /\ last'.outcome = "ValidationError"
             /\ DOMAIN last'.errors # {}
             /\ objects' = objects
             /\ user_groups' = user_groups
      ]_vars

\* C6: an update with role r of the hierarchy table that follows an update of the
\* same user with the same role leaves the groups as the first one left them;
\* when its payload carries no is_editor key, no membership is added or removed.
C6_UpdateIdempotent ==
    [][ (UpdateRan /\ last'.again) =>
          /\ user_groups'[last'.user] = user_groups[last'.user]
          /\ "is_editor" \notin DOMAIN last'.data => last'.touched = {}
      ]_vars

\* the role Editor was applied a second time in a row, by the role key alone
C6_Witness ==
    /\ last.op = "update" /\ last.again
    /\ "is_editor" \notin DOMAIN last.data
    /\ last.data["role"] = Editor
    /\ user_groups[last.user] = {Contributor, Copyeditor, Editor}

\* C7: the role read is "Staff" when is_staff is true, whatever the groups;
\* otherwise "Editor" with Editor in the groups; otherwise "Copyeditor" with
\* Copyeditor in the groups; otherwise "Contributor"; the read changes no state.
C7_RolePrecedence ==
    [][ last'.op = "role" =>
          LET staff == objects[last'.user].is_staff
              grps  == user_groups[last'.user]
          IN  /\ staff => last'.result = Staff
              /\ (~staff /\ Editor \in grps) => last'.result = Editor
              /\ (~staff /\ Editor \notin grps /\ Copyeditor \in grps)
                    => last'.result = Copyeditor
              /\ (~staff /\ Editor \notin grps /\ Copyeditor \notin grps)
                    => last'.result = Contributor
              /\ UNCHANGED <<objects, user_groups, roles_cache>>
      ]_vars

\* role was read of a staff user who is a member of Editor
C7_Witness ==
    /\ last.op = "role"
    /\ objects[last.user].is_staff
    /\ Editor \in user_groups[last.user]
    /\ last.result = Staff

\* C8: of a user just created with role r in {Contributor, Copyeditor, Editor}
\* and is_editor false, role reads r and is_editor reads true exactly when r is
\* Editor.
C8_CreateRoundTrip ==
    (/\ last.op = "create" /\ last.outcome = "returned"
     /\ last.data["role"] \in Roles /\ ~last.data["is_editor"])
    => /\ ~objects[last.user].is_staff
       /\ role(objects[last.user].is_staff, user_groups[last.user]) = last.data["role"]
       /\ is_editor(user_groups[last.user]) = (last.data["role"] = Editor)

\* a user was just created with role Copyeditor and is_editor false
C8_Witness ==
    /\ last.op = "create" /\ last.outcome = "returned"
    /\ last.data["role"] = Copyeditor /\ ~last.data["is_editor"]
    /\ user_groups[last.user] = {Contributor, Copyeditor}

\* C9: an update whose payload has no role of the hierarchy table adds Editor
\* when is_editor is true, removes Editor when is_editor is false, and leaves the
\* groups alone when is_editor is absent; no other group changes.
C9_UpdateIsEditorOnly ==
    [][ (UpdateRan /\ ~("role" \in DOMAIN last'.data /\ last'.data["role"] \in Roles)) =>
          user_groups'[last'.user] =
              IF "is_editor" \notin DOMAIN last'.data THEN user_groups[last'.user]
              ELSE IF last'.data["is_editor"] THEN user_groups[last'.user] \cup {Editor}
              ELSE user_groups[last'.user] \ {Editor}
      ]_vars

\* an update with is_editor false and a role that is no key took Editor from an Editor
C9_Witness ==
    /\ last.op = "update" /\ last.outcome = "returned"
    /\ "role" \in DOMAIN last.data /\ last.data["role"] = Staff
    /\ "is_editor" \in DOMAIN last.data /\ ~last.data["is_editor"]
    /\ last.touched = {Editor}
    /\ user_groups[last.user] = {Contributor, Copyeditor}

\* C10: at_least(g) of the user's instance is true exactly when the user's
\* groups contain g: the set get_all_roles returns is the set of the group names.
C10_CacheAgreesWithGroups ==
    \A u \in DOMAIN objects :
        \A g \in Roles :
            at_least(g, roles_cache[u], user_groups[u]) <=> g \in user_groups[u]

====
